---- MODULE Spec2Model ----
(***************************************************************************)
(* Model of src/src/App.tsx: the polling dashboard component `App`.        *)
(*                                                                         *)
(* Numbers are scaled integers:                                            *)
(*   funding rates      in units of 0.0001  (0.005  -> 50, 0.0123 -> 123)  *)
(*   percentage changes in units of 0.01    (2      -> 200, 2.34 -> 234)   *)
(* One action is one run-to-completion JavaScript task: the synchronous    *)
(* part of a call up to its next `await`, or a timer callback.  The state  *)
(* setters called inside one task take effect together.                    *)
(***************************************************************************)
EXTENDS Integers, Sequences, FiniteSets, TLC

VARIABLES
    cryptoData,     \* useState<CryptoData[]>([])          App.tsx:29
    fundingRates,   \* useState<FundingRateData>({})       App.tsx:30
    loading,        \* useState(true)                      App.tsx:31
    error,          \* useState<string | null>(null)       App.tsx:32
    lastUpdated,    \* useState<Date>(new Date())          App.tsx:33
    calls,          \* invocations of fetchCryptoData suspended at an await
    timers,         \* pending setTimeout retry callbacks  App.tsx:260
    app,            \* life cycle of the component: "init", "mounted", "unmounted"
    now,            \* wall clock, in periods of the 5 s interval
    dataSource,     \* which setCryptoData wrote cryptoData: "initial", "api", "mock"
    writer,         \* the cycle (by its start time) that wrote cryptoData and
                    \* the one that wrote fundingRates; -1 for the initial values
    query           \* last getTradeSignal call made by a reader: <<>> or <<symbol, signal>>

vars == <<cryptoData, fundingRates, loading, error, lastUpdated, calls, timers,
          app, now, dataSource, writer, query>>

----------------------------------------------------------------------------
(* Bounds of the exploration *)

\* number of interval ticks explored
MaxTicks == 2
\* entries of the funding-rate map drawn for the signal specification
MaxEntries == 1
\* asset records drawn for the signal specification
MaxRecords == 1

----------------------------------------------------------------------------
(* Program constants *)

\* funding thresholds: rate >= 0.005 / rate <= -0.005
FundingThreshold == 50
\* momentum thresholds: change >= 2 / change <= -2
MomentumThreshold == 200
\* retryCount < 3
MaxRetries == 3
\* (Math.random() - 0.5) * 0.002 lies in [-0.001, 0.001)
VariationAmp == 10

targetCoins ==
    <<"bitcoin", "ethereum", "binancecoin", "solana", "cardano",
      "sui", "sei-network", "hype-token", "dogecoin", "bonk">>

mockCryptoData ==
    << [id |-> "bitcoin",     symbol |-> "btc",  price_change_percentage_24h |-> 234],
       [id |-> "ethereum",    symbol |-> "eth",  price_change_percentage_24h |-> -87],
       [id |-> "binancecoin", symbol |-> "bnb",  price_change_percentage_24h |-> 156],
       [id |-> "solana",      symbol |-> "sol",  price_change_percentage_24h |-> 423],
       [id |-> "cardano",     symbol |-> "ada",  price_change_percentage_24h |-> -123],
       [id |-> "sui",         symbol |-> "sui",  price_change_percentage_24h |-> 678],
       [id |-> "sei-network", symbol |-> "sei",  price_change_percentage_24h |-> -245],
       [id |-> "hype-token",  symbol |-> "hype", price_change_percentage_24h |-> 891],
       [id |-> "dogecoin",    symbol |-> "doge", price_change_percentage_24h |-> 345],
       [id |-> "bonk",        symbol |-> "bonk", price_change_percentage_24h |-> 1234] >>

baseRates ==
    [s \in {"BTC", "ETH", "BNB", "SOL", "ADA", "SUI", "SEI", "HYPE", "DOGE", "BONK"} |->
        CASE s = "BTC"  -> 123
          [] s = "ETH"  -> -87
          [] s = "BNB"  -> 34
          [] s = "SOL"  -> -156
          [] s = "ADA"  -> 89
          [] s = "SUI"  -> -23
          [] s = "SEI"  -> 67
          [] s = "HYPE" -> -134
          [] s = "DOGE" -> 45
          [] s = "BONK" -> -78]

\* the error state: null, or the template string of App.tsx:264
Null == <<>>
ErrorMessage(attempts) ==
    <<"Connection failed after ", attempts, " attempts. Using offline data.">>

----------------------------------------------------------------------------
(* String.prototype.toUpperCase on the strings that occur *)

UpperCaseTable ==
    [s \in {"btc", "eth", "bnb", "sol", "ada", "sui", "sei", "hype", "doge", "bonk"} |->
        CASE s = "btc"  -> "BTC"
          [] s = "eth"  -> "ETH"
          [] s = "bnb"  -> "BNB"
          [] s = "sol"  -> "SOL"
          [] s = "ada"  -> "ADA"
          [] s = "sui"  -> "SUI"
          [] s = "sei"  -> "SEI"
          [] s = "hype" -> "HYPE"
          [] s = "doge" -> "DOGE"
          [] s = "bonk" -> "BONK"]

toUpperCase(s) == IF s \in DOMAIN UpperCaseTable THEN UpperCaseTable[s] ELSE s

----------------------------------------------------------------------------
(* Signal derivation *)

\* fundingRates[key]: the stored number, or undefined for a missing key;
\* <<>> stands for undefined and <<r>> for the number r
Lookup(key) == IF key \in DOMAIN fundingRates THEN <<fundingRates[key]>> ELSE <<>>

\* !rate: undefined and 0 are falsy
Falsy(rate) == rate = <<>> \/ rate[1] = 0

\* cryptoData.find(c => c.symbol.toUpperCase() === symbol.toUpperCase()):
\* the first matching record as <<record>>, or <<>> for undefined
Find(symbol) ==
    LET hits == {i \in 1..Len(cryptoData) :
                    toUpperCase(cryptoData[i].symbol) = toUpperCase(symbol)}
    IN  IF hits = {} THEN <<>>
        ELSE <<cryptoData[CHOOSE i \in hits : \A j \in hits : i <= j]>>

\* App.tsx:330-333: the default of the !rate branch
DefaultSignalSwapped(symbol) == IF toUpperCase(symbol) = "BNB" THEN "SELL" ELSE "BUY"

DefaultSignal(symbol) == IF toUpperCase(symbol) = "BNB" THEN "BUY" ELSE "SELL"

\* App.tsx:322-333: the !rate branch
MomentumSignalStrict(symbol) ==
    LET crypto == Find(symbol)
    IN  IF crypto # <<>> /\ crypto[1].price_change_percentage_24h > MomentumThreshold
            THEN "BUY"
        ELSE IF crypto # <<>> /\ crypto[1].price_change_percentage_24h <= -MomentumThreshold
            THEN "SELL"
        ELSE DefaultSignal(symbol)

MomentumSignal(symbol) ==
    LET crypto == Find(symbol)
    IN  IF crypto # <<>> /\ crypto[1].price_change_percentage_24h >= MomentumThreshold
            THEN "BUY"
        ELSE IF crypto # <<>> /\ crypto[1].price_change_percentage_24h <= -MomentumThreshold
            THEN "SELL"
        ELSE DefaultSignal(symbol)

\* App.tsx:336-341: the thresholds on a truthy rate; "null" is the null result
FundingSignalWide(r) ==
    IF r >= 2 * FundingThreshold THEN "SELL"
    ELSE IF r <= -(2 * FundingThreshold) THEN "BUY"
    ELSE "null"

FundingSignalStrict(r) ==
    IF r > FundingThreshold THEN "SELL"
    ELSE IF r < -FundingThreshold THEN "BUY"
    ELSE "null"

FundingSignal(r) ==
    IF r >= FundingThreshold THEN "SELL"
    ELSE IF r <= -FundingThreshold THEN "BUY"
    ELSE "null"

getTradeSignal(symbol) ==
    LET rate == Lookup(toUpperCase(symbol))
    IN  IF Falsy(rate) THEN MomentumSignal(symbol) ELSE FundingSignal(rate[1])

----------------------------------------------------------------------------
(* The upstream market-data endpoint, App.tsx:44: ids=<targetCoins>,         *)
(* order=market_cap_desc.  It answers with one record per id it lists, in   *)
(* its ranking, which need not be the order of the request.                 *)

Range(f) == {f[i] : i \in DOMAIN f}

SymbolOf(id) == (CHOOSE r \in Range(mockCryptoData) : r.id = id).symbol

\* rankings the endpoint may apply: the request order, and one by market cap
RankOrders ==
    { targetCoins,
      <<"bitcoin", "ethereum", "binancecoin", "solana", "dogecoin",
        "cardano", "sui", "hype-token", "sei-network", "bonk">> }

\* the ids the endpoint may list: all of them, all but one, none
ListedSets == { Range(targetCoins), Range(targetCoins) \ {"hype-token"}, {} }

\* sampled 24 h change of live records; none of the mock records has it
LiveChanges == {-250}

LiveRecord(id, change) ==
    [id |-> id, symbol |-> SymbolOf(id), price_change_percentage_24h |-> change]

Response(order, listed, change) ==
    LET ids == SelectSeq(order, LAMBDA id : id \in listed)
    IN  [i \in 1..Len(ids) |-> LiveRecord(ids[i], change)]

\* the values `await response.json()` can deliver
Responses ==
    { Response(o, l, ch) : o \in RankOrders, l \in ListedSets, ch \in LiveChanges }

----------------------------------------------------------------------------
(* generateFundingRates, App.tsx:226-248 *)

\* sampled values of (Math.random() - 0.5) * 0.002: both ends of [-0.001, 0.001)
Variations == {-VariationAmp, VariationAmp - 1}

\* sampled draws of the ten independent variations: one value for every
\* symbol, or one symbol apart from the nine others
VariationDraws ==
    { [s \in DOMAIN baseRates |-> IF s = d THEN w ELSE v] :
        d \in DOMAIN baseRates, v \in Variations, w \in Variations }

RatesWithSnapped(variation) ==
    [s \in DOMAIN baseRates |->
        IF baseRates[s] + variation[s] < FundingThreshold
           /\ baseRates[s] + variation[s] > -FundingThreshold
        THEN 0
        ELSE baseRates[s] + variation[s]]

RatesWithDoubled(variation) ==
    [s \in DOMAIN baseRates |-> baseRates[s] + 2 * variation[s]]

RatesWith(variation) == [s \in DOMAIN baseRates |-> baseRates[s] + variation[s]]

generateFundingRates == { RatesWith(v) : v \in VariationDraws }

----------------------------------------------------------------------------
(* fetchCryptoData, App.tsx:38-273 *)

\* an invocation suspended at `await fetch(...)`; `captured` is the
\* cryptoData of the closure the invocation runs in
FreeId == CHOOSE i \in 0..(Cardinality(calls) + Cardinality(timers)) :
              /\ \A c \in calls : c.id # i
              /\ \A t \in timers : t.id # i
              /\ \A j \in 0..(i - 1) : (\E c \in calls : c.id = j) \/ (\E t \in timers : t.id = j)

NewCall(retryCount, captured) ==
    [id |-> FreeId, retryCount |-> retryCount, pc |-> "fetch",
     captured |-> captured, started |-> now]

\* App.tsx:65-223: the inner catch installs the mock data and completes normally
InnerCatchKeepsData == [thrown |-> FALSE, data |-> cryptoData, source |-> dataSource]

InnerCatchRethrow == [thrown |-> TRUE, data |-> <<>>, source |-> "none"]

InnerCatchReversed ==
    [thrown |-> FALSE,
     data |-> [i \in 1..Len(mockCryptoData) |-> mockCryptoData[Len(mockCryptoData) + 1 - i]],
     source |-> "mock"]

InnerCatch == [thrown |-> FALSE, data |-> mockCryptoData, source |-> "mock"]

\* App.tsx:62-63: the parsed body is installed as it is
InnerTryTruncated(data) ==
    [thrown |-> FALSE, data |-> SubSeq(data, 1, Len(data) - 1), source |-> "api"]

InnerTry(data) == [thrown |-> FALSE, data |-> data, source |-> "api"]

\* App.tsx:258
RetryDelay(retryCount) == (2 ^ retryCount) * 1000

\* App.tsx:253-269: the outer catch
OuterCatch(c) ==
    IF c.retryCount < MaxRetries
    THEN /\ timers' = timers \cup
                {[id |-> c.id, retryCount |-> c.retryCount + 1,
                  delay |-> RetryDelay(c.retryCount), captured |-> c.captured]}
         /\ calls' = calls \ {c}
         /\ UNCHANGED <<cryptoData, dataSource, writer, fundingRates, lastUpdated, error>>
    ELSE IF Len(c.captured) = 0
    THEN \* setError(message), then fetchCryptoData() runs setError(null)
         /\ error' = Null
         /\ calls' = (calls \ {c}) \cup {[NewCall(0, c.captured) EXCEPT !.id = c.id]}
         /\ UNCHANGED <<cryptoData, dataSource, writer, fundingRates, lastUpdated, timers>>
    ELSE /\ error' = ErrorMessage(c.retryCount + 1)
         /\ calls' = calls \ {c}
         /\ UNCHANGED <<cryptoData, dataSource, writer, fundingRates, lastUpdated, timers>>

\* App.tsx:63 or 222, then 250-251: the setters of one completing invocation,
\* called in one task with no await between them
InstallRatesSkipped(c, r) ==
    /\ cryptoData' = r.data
    /\ dataSource' = r.source
    /\ fundingRates' = fundingRates
    /\ lastUpdated' = now
    /\ writer' = [cryptoData |-> c.started, fundingRates |-> writer.fundingRates]

InstallNewestWins(c, r) ==
    IF c.started < writer.cryptoData
    THEN UNCHANGED <<cryptoData, dataSource, fundingRates, lastUpdated, writer>>
    ELSE /\ cryptoData' = r.data
         /\ dataSource' = r.source
         /\ fundingRates' \in generateFundingRates
         /\ lastUpdated' = now
         /\ writer' = [cryptoData |-> c.started, fundingRates |-> c.started]

Install(c, r) ==
    /\ cryptoData' = r.data
    /\ dataSource' = r.source
    /\ fundingRates' \in generateFundingRates
    /\ lastUpdated' = now
    /\ writer' = [cryptoData |-> c.started, fundingRates |-> c.started]

\* the rest of the invocation once the inner try/catch has completed with r:
\* App.tsx:250-251, or the outer catch, and the finally block
CompleteDropsSnapshot(c, r) ==
    /\ calls' = calls \ {c}
    /\ loading' = FALSE
    /\ UNCHANGED <<cryptoData, dataSource, fundingRates, lastUpdated, writer,
                   error, timers, app, now, query>>

Complete(c, r) ==
    /\ IF r.thrown
       THEN OuterCatch(c)
       ELSE /\ Install(c, r)
            /\ calls' = calls \ {c}
            /\ UNCHANGED <<error, timers>>
    /\ loading' = FALSE
    /\ UNCHANGED <<app, now, query>>

\* useEffect, App.tsx:275-280: the first invocation and the interval
Mount ==
    /\ app = "init"
    /\ app' = "mounted"
    /\ error' = Null
    /\ calls' = calls \cup {NewCall(0, cryptoData)}
    /\ UNCHANGED <<cryptoData, fundingRates, loading, lastUpdated, timers, now,
                   dataSource, writer, query>>

\* the cryptoData the mount-time closure holds: the initial state of App.tsx:29
EffectClosureData == <<>>

\* the timers that can fire: the 5 s interval while it is set, and every
\* pending retry timeout
DueTimersSingleFlight ==
    (IF app = "mounted" /\ now < MaxTicks /\ calls = {}
        THEN {[kind |-> "interval", id |-> FreeId, retryCount |-> 0, delay |-> 5000,
               captured |-> EffectClosureData]}
        ELSE {})
    \cup {[kind |-> "retry", id |-> t.id, retryCount |-> t.retryCount, delay |-> t.delay,
           captured |-> t.captured] : t \in timers}

DueTimers ==
    (IF app = "mounted" /\ now < MaxTicks
        THEN {[kind |-> "interval", id |-> FreeId, retryCount |-> 0, delay |-> 5000,
               captured |-> EffectClosureData]}
        ELSE {})
    \cup {[kind |-> "retry", id |-> t.id, retryCount |-> t.retryCount, delay |-> t.delay,
           captured |-> t.captured] : t \in timers}

\* a timer callback runs fetchCryptoData: App.tsx:279 (interval), 260 (retry)
TimerFiresSetsAdvisory ==
    \E t \in DueTimers :
        /\ now' = IF t.kind = "interval" THEN now + 1 ELSE now
        /\ timers' = {x \in timers : t.kind = "interval" \/ x.id # t.id}
        /\ error' = ErrorMessage(t.retryCount + 1)
        /\ calls' = calls \cup
              {[id |-> t.id, retryCount |-> t.retryCount, pc |-> "fetch",
                captured |-> t.captured,
                started |-> IF t.kind = "interval" THEN now + 1 ELSE now]}
        /\ UNCHANGED <<cryptoData, fundingRates, loading, lastUpdated, app,
                       dataSource, writer, query>>

TimerFiresStamps ==
    \E t \in DueTimers :
        /\ now' = IF t.kind = "interval" THEN now + 1 ELSE now
        /\ timers' = {x \in timers : t.kind = "interval" \/ x.id # t.id}
        /\ error' = Null
        /\ lastUpdated' = now'
        /\ calls' = calls \cup
              {[id |-> t.id, retryCount |-> t.retryCount, pc |-> "fetch",
                captured |-> t.captured,
                started |-> IF t.kind = "interval" THEN now + 1 ELSE now]}
        /\ UNCHANGED <<cryptoData, fundingRates, loading, app,
                       dataSource, writer, query>>

TimerFires ==
    \E t \in DueTimers :
        /\ now' = IF t.kind = "interval" THEN now + 1 ELSE now
        /\ timers' = {x \in timers : t.kind = "interval" \/ x.id # t.id}
        /\ error' = Null
        /\ calls' = calls \cup
              {[id |-> t.id, retryCount |-> t.retryCount, pc |-> "fetch",
                captured |-> t.captured,
                started |-> IF t.kind = "interval" THEN now + 1 ELSE now]}
        /\ UNCHANGED <<cryptoData, fundingRates, loading, lastUpdated, app,
                       dataSource, writer, query>>

\* what `await fetch(...)` can deliver: a 2xx response, another status, a rejection
FetchOutcomes == {"ok", "http_error", "rejected"}

\* the continuation after `await fetch(...)`, App.tsx:49-60
FetchSettles ==
    \E c \in calls : \E outcome \in FetchOutcomes :
        /\ c.pc = "fetch"
        /\ IF outcome = "ok"
           THEN /\ calls' = (calls \ {c}) \cup {[c EXCEPT !.pc = "json"]}
                /\ UNCHANGED <<cryptoData, fundingRates, loading, error, lastUpdated,
                               timers, app, now, dataSource, writer, query>>
           ELSE Complete(c, InnerCatch)

\* what `await response.json()` can deliver: a parsed body, or a rejection
JsonOutcomes ==
    {[ok |-> TRUE, data |-> d] : d \in Responses} \cup {[ok |-> FALSE, data |-> <<>>]}

\* the continuation after `await response.json()`, App.tsx:62-63
JsonSettles ==
    \E c \in calls : \E body \in JsonOutcomes :
        /\ c.pc = "json"
        /\ Complete(c, IF body.ok THEN InnerTry(body.data) ELSE InnerCatch)

\* the cleanup of the effect, App.tsx:281: clearInterval only
UnmountCancels ==
    /\ app = "mounted"
    /\ app' = "unmounted"
    /\ calls' = {}
    /\ timers' = {}
    /\ UNCHANGED <<cryptoData, fundingRates, loading, error, lastUpdated,
                   now, dataSource, writer, query>>

Unmount ==
    /\ app = "mounted"
    /\ app' = "unmounted"
    /\ UNCHANGED <<cryptoData, fundingRates, loading, error, lastUpdated, calls,
                   timers, now, dataSource, writer, query>>

Init ==
    /\ cryptoData = <<>>
    /\ fundingRates = [s \in {} |-> 0]
    /\ loading = TRUE
    /\ error = Null
    /\ lastUpdated = 0
    /\ calls = {}
    /\ timers = {}
    /\ app = "init"
    /\ now = 0
    /\ dataSource = "initial"
    /\ writer = [cryptoData |-> -1, fundingRates |-> -1]
    /\ query = <<>>

Next == Mount \/ TimerFires \/ FetchSettles \/ JsonSettles \/ Unmount

Spec == Init /\ [][Next]_vars

\* every request eventually resolves or rejects, every body is eventually
\* parsed or refused, and every timer that stays due eventually fires
FairSpec ==
    /\ Spec
    /\ WF_vars(FetchSettles)
    /\ WF_vars(JsonSettles)
    /\ WF_vars(TimerFires)

----------------------------------------------------------------------------
(* The signal specification: getTradeSignal applied to sampled snapshots *)

\* sampled funding rates: both thresholds, their inner neighbours, 0, and the
\* base rates of BTC and ETH
RateSamples ==
    {baseRates["ETH"], -FundingThreshold, 1 - FundingThreshold, 0,
     FundingThreshold - 1, FundingThreshold, baseRates["BTC"]}

\* sampled 24 h changes: both thresholds and their inner neighbours
ChangeSamples ==
    {-MomentumThreshold, 1 - MomentumThreshold, MomentumThreshold - 1, MomentumThreshold}

\* sampled assets: the two symbols the default names, and an ordinary one
SampleIds == {"bitcoin", "binancecoin", "sui"}

SampleKeys == {toUpperCase(SymbolOf(id)) : id \in SampleIds}

\* symbols a reader asks for, in the case of the records and in upper case
QuerySymbols == {SymbolOf(id) : id \in SampleIds} \cup {"BNB"}

SampleMaps ==
    UNION {[S -> RateSamples] : S \in {T \in SUBSET SampleKeys : Cardinality(T) <= MaxEntries}}

\* snapshots of at most MaxRecords records, no symbol twice
SampleSnapshots ==
    LET recs == {LiveRecord(id, ch) : id \in SampleIds, ch \in ChangeSamples}
    IN  {d \in UNION {[1..n -> recs] : n \in 0..MaxRecords} :
            \A i, j \in DOMAIN d : i # j => d[i].symbol # d[j].symbol}

InitSignal ==
    /\ cryptoData \in SampleSnapshots
    /\ fundingRates \in SampleMaps
    /\ loading = FALSE
    /\ error = Null
    /\ lastUpdated = 0
    /\ calls = {}
    /\ timers = {}
    /\ app = "mounted"
    /\ now = 0
    /\ dataSource = "api"
    /\ writer = [cryptoData |-> 0, fundingRates |-> 0]
    /\ query = <<>>

\* a reader calls getTradeSignal(symbol), App.tsx:461
Query ==
    \E symbol \in QuerySymbols :
        /\ query' = <<symbol, getTradeSignal(symbol)>>
        /\ UNCHANGED <<cryptoData, fundingRates, loading, error, lastUpdated, calls,
                       timers, app, now, dataSource, writer>>

NextSignal == Query

SpecSignal == InitSignal /\ [][NextSignal]_vars

----------------------------------------------------------------------------
(* Properties of the signal component, checked under SpecSignal *)

\* what the last getTradeSignal call was asked and what it answered
Asked == query[1]
Answer == query[2]

\* the funding rate of the asked symbol is present: its key is in the map
RatePresent == toUpperCase(Asked) \in DOMAIN fundingRates
AskedRate == fundingRates[toUpperCase(Asked)]

\* the records of the snapshot that carry the asked symbol
AskedRecords ==
    {cryptoData[i] : i \in {j \in DOMAIN cryptoData :
                              toUpperCase(cryptoData[j].symbol) = toUpperCase(Asked)}}

\* C4: a present funding rate r >= 0.005 gives SELL and r <= -0.005 gives BUY,
\* whatever the 24 h change of the asset is
C4_FundingThresholds ==
    (query # <<>> /\ RatePresent) =>
        /\ AskedRate >= 50 => Answer = "SELL"
        /\ AskedRate <= -50 => Answer = "BUY"

\* C4 witness: a rate exactly at +0.005 answered SELL although the asset's
\* 24 h change of +2 % would give BUY by momentum
C4_Witness ==
    /\ query # <<>>
    /\ RatePresent
    /\ AskedRate = 50
    /\ \E r \in AskedRecords : r.price_change_percentage_24h >= 200
    /\ Answer = "SELL"

\* C5: a present funding rate strictly inside the band is decided by price
\* momentum: BUY when change24h >= 2, SELL when change24h <= -2
C5_BandFallsThroughToMomentum ==
    (query # <<>> /\ RatePresent /\ AskedRate > -50 /\ AskedRate < 50) =>
        \A r \in AskedRecords :
            /\ r.price_change_percentage_24h >= 200 => Answer = "BUY"
            /\ r.price_change_percentage_24h <= -200 => Answer = "SELL"

\* C6: for an asset of the snapshot whose symbol has no funding-rate entry,
\* change24h >= 2 gives BUY and change24h <= -2 gives SELL
C6_MomentumWithoutRate ==
    (query # <<>> /\ ~RatePresent) =>
        \A r \in AskedRecords :
            /\ r.price_change_percentage_24h >= 200 => Answer = "BUY"
            /\ r.price_change_percentage_24h <= -200 => Answer = "SELL"

\* C6 witness: no entry, a record exactly at +2 %, answered BUY
C6_Witness ==
    /\ query # <<>>
    /\ ~RatePresent
    /\ \E r \in AskedRecords : r.price_change_percentage_24h = 200
    /\ Answer = "BUY"

\* the case of C7: no funding-rate entry, and no record or a change inside (-2, 2)
NoRateNoMomentum ==
    /\ query # <<>>
    /\ ~RatePresent
    /\ \A r \in AskedRecords :
          r.price_change_percentage_24h > -200 /\ r.price_change_percentage_24h < 200

\* C7 as stated: in that case BNB answers BUY, SUI answers SELL, and every
\* other symbol gets no signal
C7_DefaultOnlyForBnbAndSui ==
    NoRateNoMomentum =>
        Answer = (IF toUpperCase(Asked) = "BNB" THEN "BUY"
                  ELSE IF toUpperCase(Asked) = "SUI" THEN "SELL"
                  ELSE "null")

\* C7 amended: in that case BNB answers BUY and every other symbol, SUI
\* included, answers SELL; no symbol is left without a signal
C7_DefaultSellExceptBnb ==
    NoRateNoMomentum =>
        /\ toUpperCase(Asked) = "BNB" => Answer = "BUY"
        /\ toUpperCase(Asked) # "BNB" => Answer = "SELL"

\* C7 witness: BTC, neither BNB nor SUI, with a change inside the band and no
\* funding entry, answered SELL
C7_Witness ==
    /\ NoRateNoMomentum
    /\ Asked = "btc"
    /\ AskedRecords # {}
    /\ Answer = "SELL"

----------------------------------------------------------------------------
(* Properties of the acquisition component, checked under Spec *)

\* in this step the market-data request of invocation c fails: c waits at
\* `await fetch`, and the step ends that wait without a 2xx response to parse
RequestFails(c) ==
    /\ c \in calls
    /\ c.pc = "fetch"
    /\ c \notin calls'
    /\ [c EXCEPT !.pc = "json"] \notin calls'

\* after this step a retry of invocation c with attempt k is pending
RetryPending(c, k) == \E t \in timers' : t.id = c.id /\ t.retryCount = k

\* C1: a request failing at attempt k in {0,1,2} does not install the
\* fallback dataset in that step; exactly one re-invocation with attempt k+1
\* is scheduled after 2^k seconds
C1_FailureSchedulesRetry ==
    [][\A c \in calls :
          (RequestFails(c) /\ c.retryCount \in 0..2) =>
              /\ cryptoData' = cryptoData
              /\ dataSource' = dataSource
              /\ timers' = timers \cup
                    {[id |-> c.id, retryCount |-> c.retryCount + 1,
                      delay |-> (2 ^ c.retryCount) * 1000, captured |-> c.captured]}
              /\ Cardinality(timers') = Cardinality(timers) + 1]_vars

\* C2: an episode whose requests failed ends only after 4 attempts, and then
\* the error string is set and mentions 4 attempts and the asset records are
\* the 10-entry fallback dataset
C2_ExhaustionReported ==
    [][\A c \in calls :
          (RequestFails(c) /\ ~RetryPending(c, c.retryCount + 1)) =>
              /\ c.retryCount = 3
              /\ error' = ErrorMessage(4)
              /\ cryptoData' = mockCryptoData
              /\ Len(cryptoData') = 10]_vars

\* C3: a failure at attempt k in {0,1,2} schedules the retry after exactly
\* 2^k seconds; a failure at attempt 3 schedules nothing and substitutes the
\* fallback data; no attempt counter exceeds 3
C3_BackoffSchedule ==
    [][/\ \A c \in calls :
             RequestFails(c) =>
                 IF c.retryCount < 3
                 THEN \E t \in timers' \ timers :
                         /\ t.id = c.id
                         /\ t.retryCount = c.retryCount + 1
                         /\ t.delay = (2 ^ c.retryCount) * 1000
                 ELSE timers' = timers /\ cryptoData' = mockCryptoData
       /\ \A c \in calls' : c.retryCount <= 3
       /\ \A t \in timers' : t.retryCount <= 3]_vars

\* a refresh cycle has completed: the finally block has run at least once
CycleCompleted == loading = FALSE

\* C8: after a completed refresh cycle getTradeSignal answers BUY or SELL,
\* never null, for every rendered asset, BNB and SUI included
C8_EveryAssetHasSignal ==
    CycleCompleted =>
        \A i \in DOMAIN cryptoData :
            getTradeSignal(cryptoData[i].symbol) \in {"BUY", "SELL"}

\* C9 as stated: after any completed refresh cycle the asset-record array
\* holds exactly 10 records
C9_AlwaysTenRecords == CycleCompleted => Len(cryptoData) = 10

\* C9 amended: after a cycle completed on the fallback path the array is the
\* 10-record fallback dataset; after a cycle completed on the success path it
\* is the response body as delivered: one record per id the endpoint listed,
\* none twice, at most 10, possibly fewer
C9_TenOnFallbackBodyOnSuccess ==
    CycleCompleted =>
        \/ dataSource = "mock" /\ cryptoData = mockCryptoData /\ Len(cryptoData) = 10
        \/ /\ dataSource = "api"
           /\ Len(cryptoData) <= 10
           /\ \A i, j \in DOMAIN cryptoData : i # j => cryptoData[i].id # cryptoData[j].id
           /\ \E l \in ListedSets : {cryptoData[i].id : i \in DOMAIN cryptoData} = l

\* C9 witness: a completed success cycle left 9 records
C9_Witness == CycleCompleted /\ dataSource = "api" /\ Len(cryptoData) = 9

\* C10 as stated: whenever the grid is rendered (loading is false) the
\* asset-record array is non-empty
C10_NeverEmptyWhenRendered == loading = FALSE => cryptoData # <<>>

\* C10 amended: whenever the grid is rendered the array is non-empty unless
\* the response body installed last was itself empty; failures alone (the
\* fallback path) never leave it empty
C10_EmptyOnlyFromEmptyBody ==
    loading = FALSE => (cryptoData # <<>> \/ dataSource = "api")

\* C10 witness: the grid is rendered from the fallback dataset after a failed
\* request
C10_Witness == loading = FALSE /\ dataSource = "mock" /\ cryptoData # <<>>

----------------------------------------------------------------------------
(* Properties of the scheduler and of the snapshots, checked under Spec *)

\* the interval is set and the explored horizon has a tick left
IntervalSet == app = "mounted" /\ now < MaxTicks

\* the callback of the 5 s interval runs
IntervalTick == TimerFires /\ now' = now + 1

\* C11: a refresh cycle with attempt 0 starts at startup and at every tick of
\* the interval; while the interval is set a tick is enabled whatever the
\* previous cycle did and whether or not it is still in flight
C11_TickUnconditional ==
    /\ [](IntervalSet => ENABLED IntervalTick)
    /\ [][((app = "init" /\ app' = "mounted") \/ now' = now + 1) =>
             \E c \in calls' \ calls :
                 c.retryCount = 0 /\ c.pc = "fetch" /\ c.started = now']_vars

\* C11 witness: two cycles, started at different ticks, are in flight together
C11_Witness ==
    \E c \in calls : \E d \in calls :
        c.started < d.started /\ c.retryCount = 0 /\ d.retryCount = 0

\* the ten tracked symbols with their base rates, App.tsx:227-238, times 10000
TrackedBaseRate(s) ==
    CASE s = "BTC"  -> 123  [] s = "ETH"  -> -87  [] s = "BNB"  -> 34
      [] s = "SOL"  -> -156 [] s = "ADA"  -> 89   [] s = "SUI"  -> -23
      [] s = "SEI"  -> 67   [] s = "HYPE" -> -134 [] s = "DOGE" -> 45
      [] s = "BONK" -> -78

TrackedSymbols == {"BTC", "ETH", "BNB", "SOL", "ADA", "SUI", "SEI", "HYPE", "DOGE", "BONK"}

\* C12: after every completed cycle, success or fallback, the funding-rate
\* map has exactly the 10 tracked upper-case symbols as keys, and each rate
\* lies within 0.001 of its base rate
C12_RatesRegenerated ==
    CycleCompleted =>
        /\ DOMAIN fundingRates = TrackedSymbols
        /\ \A s \in TrackedSymbols :
              /\ fundingRates[s] >= TrackedBaseRate(s) - 10
              /\ fundingRates[s] <= TrackedBaseRate(s) + 10

\* C12 witness: a completed success cycle whose map has DOGE at its lowest
\* rate and BTC just under its highest
C12_Witness ==
    /\ CycleCompleted
    /\ dataSource = "api"
    /\ DOMAIN fundingRates = TrackedSymbols
    /\ fundingRates["DOGE"] = 35
    /\ fundingRates["BTC"] = 132

\* the ids of the asset records, in their order
Ids == [i \in DOMAIN cryptoData |-> cryptoData[i].id]

\* the position of an id in the target list
TargetIndex(id) == CHOOSE i \in DOMAIN targetCoins : targetCoins[i] = id

IdsAreTargets ==
    /\ \A i \in DOMAIN Ids : \E k \in DOMAIN targetCoins : targetCoins[k] = Ids[i]
    /\ \A i \in DOMAIN Ids : \A j \in DOMAIN Ids : i # j => Ids[i] # Ids[j]

\* C13 as stated: in every state the ids of the asset records are target ids
\* in the relative order of the target list, and the fallback ids equal the
\* target list
C13_TargetOrder ==
    /\ IdsAreTargets
    /\ \A i \in DOMAIN Ids : \A j \in DOMAIN Ids :
          i < j => TargetIndex(Ids[i]) < TargetIndex(Ids[j])
    /\ dataSource = "mock" => Ids = targetCoins

\* C13 amended: in every state the ids of the asset records are target ids,
\* none twice; the fallback ids equal the target list element by element;
\* records of a response keep the order the endpoint ranked them in
\* (market_cap_desc), which need not be the order of the target list
C13_TargetSubsetEndpointOrder ==
    /\ IdsAreTargets
    /\ dataSource = "mock" => Ids = targetCoins
    /\ dataSource = "api" =>
          \E order \in RankOrders :
              Ids = SelectSeq(order, LAMBDA id : \E i \in DOMAIN Ids : Ids[i] = id)

\* C13 witness: a response is installed in which dogecoin precedes cardano,
\* against the target list
C13_Witness ==
    /\ dataSource = "api"
    /\ \E i \in DOMAIN Ids : \E j \in DOMAIN Ids :
          i < j /\ Ids[i] = "dogecoin" /\ Ids[j] = "cardano"

\* invocation c runs to its end in this step
Completes(c) ==
    /\ c \in calls
    /\ c \notin calls'
    /\ [c EXCEPT !.pc = "json"] \notin calls'

InFlight(s) == \E c \in calls : c.started = s

\* the snapshot installed is the one of the cycle started at tick s
InstalledBy(s) == writer.cryptoData = s /\ writer.fundingRates = s

\* C17: when requests settle and timers fire, every cycle that is started
\* reaches a state in which the asset records and the funding-rate map are
\* the ones that cycle installed, whether its request succeeded or failed
C17_CycleEndsInReplacement ==
    \A s \in 0..MaxTicks : InFlight(s) ~> InstalledBy(s)

\* C17 witness: the cycle started at tick 1 has ended with the fallback
\* installed and nothing is in flight
C17_Witness ==
    /\ InstalledBy(1)
    /\ dataSource = "mock"
    /\ now = 1
    /\ calls = {}

\* C18: the last-updated timestamp changes only in a step in which an
\* invocation ends by installing its snapshot, and is then the time of that
\* step; a step of the failure handler (a retry scheduled, an error reported)
\* leaves asset records, funding-rate map and timestamp unchanged
C18_TimestampOnlyOnCompletion ==
    [][/\ lastUpdated' # lastUpdated =>
            /\ lastUpdated' = now
            /\ \E c \in calls : Completes(c) /\ writer'.cryptoData = c.started
                                             /\ writer'.fundingRates = c.started
       /\ (timers' # timers \/ error' # Null) =>
            UNCHANGED <<cryptoData, fundingRates, lastUpdated>>]_vars

\* C18 witness: a cycle started by the interval has stamped its completion
C18_Witness ==
    /\ lastUpdated = 2
    /\ dataSource = "api"
    /\ loading = FALSE

\* an invocation suspended at an await can resume
Resumable == ENABLED (FetchSettles \/ JsonSettles)

\* C19: after teardown no tick runs and no cycle starts; the teardown step
\* itself removes no invocation in flight and no scheduled timer; what is in
\* flight can still resume after teardown and then calls the setters
C19_TeardownStopsTicksOnly ==
    /\ [](app = "unmounted" /\ calls # {} => Resumable)
    /\ [][/\ app = "unmounted" =>
               /\ now' = now
               /\ \A c \in calls' : c.pc = "fetch" => c \in calls
               /\ \A c \in calls : Completes(c) =>
                     writer'.cryptoData = c.started /\ writer'.fundingRates = c.started
          /\ (app = "mounted" /\ app' = "unmounted") =>
               calls' = calls /\ timers' = timers]_vars

\* C19 witness: after teardown, with nothing installed yet, a request that
\* was answered before teardown is waiting for its body
C19_Witness ==
    /\ app = "unmounted"
    /\ writer.cryptoData = -1
    /\ \E c \in calls : c.pc = "json"

\* C20: an invocation that ends installs its snapshot whatever is installed,
\* also when the installed snapshot is of a cycle that started later
C20_CompletionOrderWins ==
    [][\A c \in calls :
          Completes(c) =>
              /\ writer'.cryptoData = c.started
              /\ writer'.fundingRates = c.started
              /\ c.started < writer.cryptoData => writer'.cryptoData < writer.cryptoData]_vars

\* C20 witness: the cycle started at tick 1 has ended, and the snapshot
\* installed is the one of the cycle started before it
C20_Witness ==
    /\ now = 1
    /\ calls = {}
    /\ writer.cryptoData = 0
    /\ writer.fundingRates = 0
    /\ lastUpdated = 1

\* an invocation of fetchCryptoData starts in this step
InvocationStarts == \E c \in calls' : c.pc = "fetch" /\ c \notin calls

RecordSymbols == {"btc", "eth", "bnb", "sol", "ada", "sui", "sei", "hype", "doge", "bonk"}

====
